---- MODULE Spec2Model ----
(***************************************************************************)
(* Valence RT protocol engine of ValenceRTDisplay_V2.ino: discovery,       *)
(* polling, frame decoding, MODBUS CRC and the synthetic data generator.   *)
(*                                                                         *)
(* Units (the sketch keeps floats; the model keeps the scaled integers):   *)
(*   voltage       0.01 V      current   0.1 A      power   0.001 W        *)
(*   cellVoltages  0.0005 V    current2  0.01 A     temperature  1 C       *)
(* Strings are sequences of character codes, bytes are 0..255.             *)
(***************************************************************************)
EXTENDS Integers, Sequences, FiniteSets, TLC

MAX_BATTERIES == 4
LAST_ADDR == 5
DISC_BUF == 64
POLL_BUF == 128
DISC_MIN_AVAILABLE == 10
\* a bug: off by one
ID_MIN_LENGTH_Sixteen == 15 + 1

ID_MIN_LENGTH == 15
\* a bug: off by one
DATA_MIN_LENGTH_Nineteen == 20 - 1

DATA_MIN_LENGTH == 20

\* Number of clock ticks the model lets pass; one tick per pass started.
MaxTime == 2

Slots == 0..(MAX_BATTERIES - 1)

----------------------------------------------------------------------------
(* Bit arithmetic on 16-bit values                                         *)

\* one bit of a ^ b, at the bit of weight w
XorBit(a, b, w) == ((((a \div w) % 2) + ((b \div w) % 2)) % 2) * w

\* a ^ b on uint16_t
Xor16(a, b) ==
    XorBit(a, b, 1) + XorBit(a, b, 2) + XorBit(a, b, 4) + XorBit(a, b, 8)
    + XorBit(a, b, 16) + XorBit(a, b, 32) + XorBit(a, b, 64) + XorBit(a, b, 128)
    + XorBit(a, b, 256) + XorBit(a, b, 512) + XorBit(a, b, 1024)
    + XorBit(a, b, 2048) + XorBit(a, b, 4096) + XorBit(a, b, 8192)
    + XorBit(a, b, 16384) + XorBit(a, b, 32768)

\* (int16_t) of a 16-bit pattern
ToInt16(raw) == IF raw >= 32768 THEN raw - 65536 ELSE raw

\* a bug: the byte is kept unsigned
ToInt8_Unsigned(b) == b

\* (int8_t) of a byte
ToInt8(b) == IF b >= 128 THEN b - 256 ELSE b

Abs(x) == IF x < 0 THEN -x ELSE x

\* data[k] of a C buffer holding the sequence data (0-based offset)
At(data, k) == data[k + 1]

\* (data[hi] << 8) | data[lo] as uint16_t
Word(data, lo, hi) == At(data, hi) * 256 + At(data, lo)

----------------------------------------------------------------------------
(* calculateModbusCRC                                                      *)

\* a bug: the polynomial is not the reflected one
crcBit_Poly8005(crc) == IF crc % 2 = 1 THEN Xor16(crc \div 2, 32773) ELSE crc \div 2

\* one round of the inner loop: shift right, XOR 0xA001 if the low bit was set
crcBit(crc) == IF crc % 2 = 1 THEN Xor16(crc \div 2, 40961) ELSE crc \div 2

\* j rounds of the inner loop (each intermediate value is bound once)
RECURSIVE crcShift(_, _)
crcShift(crc, j) ==
    IF j = 0 THEN crc
    ELSE CHOOSE r \in {crcShift(c, j - 1) : c \in {crcBit(crc)}} : TRUE

\* the outer loop from byte i on
RECURSIVE crcLoop(_, _, _, _)
crcLoop(data, length, i, crc) ==
    IF i >= length THEN crc
    ELSE CHOOSE r \in {crcLoop(data, length, i + 1, c) :
                          c \in {crcShift(Xor16(crc, At(data, i)), 8)}} : TRUE

calculateModbusCRC(data, length) == crcLoop(data, length, 0, 65535)

\* a bug: the check bytes are stored high byte first
WithCRC_HighFirst(body) ==
    LET crc16 == calculateModbusCRC(body, 5)
    IN  body \o <<(crc16 \div 256) % 256, crc16 % 256>>

\* the 7-byte frame with its CRC over the first 5 bytes, little-endian
WithCRC(body) ==
    LET crc16 == calculateModbusCRC(body, 5)
    IN  body \o <<crc16 % 256, (crc16 \div 256) % 256>>

\* a bug: the sequence is sent once, not doubled
initSeq_Half == <<255, 67, 6, 6, 66, 70>>

\* byte initSeq[]: FF 43 06 06 42 46, twice
initSeq == <<255, 67, 6, 6, 66, 70, 255, 67, 6, 6, 66, 70>>

pollMsg(batteryAddr) == WithCRC(<<255, 80, 6, 0, batteryAddr>>)

dataRequest(batteryIndex) == WithCRC(<<255, 97, 6, batteryIndex, 0>>)

----------------------------------------------------------------------------
(* parseBatteryID                                                          *)

\* a bug: the space is not taken as printable
IsPrintable_NoSpace(b) == b > 32 /\ b <= 126

\* data[i] >= 0x20 && data[i] <= 0x7E
IsPrintable(b) == b >= 32 /\ b <= 126

RECURSIVE idLoop(_, _, _, _)
idLoop(data, length, i, acc) ==
    IF i >= length - 2 THEN acc
    ELSE idLoop(data, length, i + 1,
                IF IsPrintable(At(data, i)) THEN Append(acc, At(data, i))
                                            ELSE acc)

parseBatteryID(data, length) ==
    IF length < ID_MIN_LENGTH THEN <<>>
    ELSE idLoop(data, length, 3, <<>>)

----------------------------------------------------------------------------
(* struct BatteryData and the registry                                     *)

\* a zero-initialised global BatteryData
BatteryData ==
    [voltage |-> 0, current |-> 0, power |-> 0, soc |-> 0, temperature |-> 0,
     cellVoltages |-> [j \in 0..5 |-> 0], current2 |-> 0, cycles |-> 0,
     valid |-> FALSE, lastUpdate |-> 0, batteryID |-> <<>>]

----------------------------------------------------------------------------
(* parseValenceBatteryData                                                 *)

\* a bug: the loop stops after five cells
cellGuard_FiveCells(i, length) == i < 5 /\ (20 + i * 2 + 1) < length

\* the guard of the cell-voltage loop: i < 6 && (20 + i * 2 + 1) < length
cellGuard(i, length) == i < 6 /\ (20 + i * 2 + 1) < length

RECURSIVE cellLoop(_, _, _, _)
cellLoop(data, length, i, cells) ==
    IF ~cellGuard(i, length) THEN cells
    ELSE cellLoop(data, length, i + 1,
                  [cells EXCEPT ![i] = 2 * Word(data, 20 + i * 2, 21 + i * 2)])

\* a bug: the header byte is not checked
parseRejects_NoHeaderCheck(data, length, batteryIndex) ==
    \/ length < 20
    \/ batteryIndex >= 4

\* the early returns of the decoder
parseRejects(data, length, batteryIndex) ==
    \/ length < DATA_MIN_LENGTH
    \/ batteryIndex >= MAX_BATTERIES
    \/ At(data, 0) # 255

\* a bug: the guard is one byte short of the field
secondaryGuard_Short(length) == length > 34

\* if (length > 35), the guard of the secondary current
secondaryGuard(length) == length > 35

\* a bug: the slot is marked valid but its timestamp is not updated
parseFields_NoStamp(data, length, b, millis) ==
    [b EXCEPT !.voltage = Word(data, 10, 11), !.valid = TRUE]

\* the fields the decoder writes into one BatteryData, at time millis
parseFields(data, length, b, millis) ==
    LET voltage == Word(data, 10, 11)
        current == ToInt16(Word(data, 12, 13))
    IN  [b EXCEPT
           !.voltage = voltage,
           !.current = current,
           !.soc = IF length > 15 THEN At(data, 15) ELSE @,
           !.temperature = IF length > 16 THEN ToInt8(At(data, 16)) ELSE @,
           !.cellVoltages = IF length > 30 THEN cellLoop(data, length, 0, @)
                                           ELSE @,
           !.current2 = IF secondaryGuard(length) THEN 10 * ToInt16(Word(data, 34, 35))
                                       ELSE @,
           !.power = voltage * Abs(current),
           !.valid = TRUE,
           !.lastUpdate = millis]

\* returns the function's result and the registry it leaves
parseValenceBatteryData(data, length, batteryIndex, bats, millis) ==
    IF parseRejects(data, length, batteryIndex)
    THEN [ok |-> FALSE, batteries |-> bats]
    ELSE [ok |-> TRUE,
          batteries |-> [bats EXCEPT ![batteryIndex] =
                            parseFields(data, length, @, millis)]]

----------------------------------------------------------------------------
(* generateTestData                                                        *)

\* random(lo, hi) returns a value in lo..hi-1; the model draws an extreme
RandomDraws == {"lo", "hi"}

random(lo, hi, draw) == IF draw = "lo" THEN lo ELSE hi - 1

\* "TEST_BAT_" + String(i + 1)
testID(i) == <<84, 69, 83, 84, 95, 66, 65, 84, 95, 49 + i>>

clampSoc(soc) == IF soc > 100 THEN 100 ELSE IF soc < 0 THEN 0 ELSE soc

testBattery(b, i, millis, draw) ==
    LET voltage == 1200 + (i * 10) + random(-20, 20, draw)
        current == -80 + random(-40, 40, draw)
    IN  [b EXCEPT
           !.voltage = voltage,
           !.current = current,
           !.power = Abs(voltage * current),
           !.soc = clampSoc(65 + (i * 8) + random(-8, 8, draw)),
           !.temperature = 23 + random(-5, 12, draw),
           !.cellVoltages = [j \in 0..5 |-> voltage * 5 + 2 * random(-30, 30, draw)],
           !.current2 = current * 10 + random(-5, 5, draw),
           !.cycles = 180 + (i * 25),
           !.batteryID = testID(i),
           !.valid = TRUE,
           !.lastUpdate = millis]

\* a bug: one slot short
TEST_BATTERIES_Three == 4 - 1

TEST_BATTERIES == 4

\* the registry generateTestData leaves (it also sets activeBatteryCount to
\* TEST_BATTERIES and protocolInitialized to true)
generateTestData(bats, millis, draw) ==
    [i \in Slots |-> IF i < TEST_BATTERIES
                     THEN testBattery(bats[i], i, millis, draw)
                     ELSE bats[i]]

----------------------------------------------------------------------------
(* Bytes the bus can deliver                                               *)

\* a buffer of len bytes, zero except at the offsets of ov
Frame(len, ov) == [k \in 1..len |-> IF (k - 1) \in DOMAIN ov THEN ov[k - 1] ELSE 0]

\* FF 70 0F "BATA" 01 "1" 00.. 'P' B9: identifier bytes at 3..6 and 8
RespA == Frame(15, (0 :> 255) @@ (1 :> 112) @@ (2 :> 15) @@ (3 :> 66) @@ (4 :> 65)
                   @@ (5 :> 84) @@ (6 :> 65) @@ (7 :> 1) @@ (8 :> 49)
                   @@ (13 :> 80) @@ (14 :> 185))
\* FF 70 0F "BATB" 00.. 'P' B9
RespB == Frame(15, (0 :> 255) @@ (1 :> 112) @@ (2 :> 15) @@ (3 :> 66) @@ (4 :> 65)
                   @@ (5 :> 84) @@ (6 :> 66) @@ (13 :> 80) @@ (14 :> 185))
\* a 12-byte response with the right header and printable bytes
RespShort == Frame(12, (0 :> 255) @@ (1 :> 112) @@ (2 :> 12) @@ (3 :> 83) @@ (4 :> 72))
\* a 15-byte response with another opcode
RespBadHeader == Frame(15, (0 :> 255) @@ (1 :> 113) @@ (3 :> 66) @@ (4 :> 65))
\* a 15-byte response with no printable byte in the identifier span
RespNoID == Frame(15, (0 :> 255) @@ (1 :> 112) @@ (13 :> 80) @@ (14 :> 185))

DiscChunks == {<<>>, RespA, RespB, RespShort, RespBadHeader, RespNoID}

\* bytes that arrive while the wake-up sequence is on the bus
WakeNoise == {<<>>, <<0>>}

\* the 20-byte scenario frame: 50.00 V, 8.0 A, SOC 100, 23 C
Data20 == Frame(20, (0 :> 255) @@ (10 :> 136) @@ (11 :> 19) @@ (12 :> 80)
                    @@ (15 :> 100) @@ (16 :> 23))
\* a 36-byte frame: 13.20 V, -1.6 A, SOC 200, -5 C, cells 3300..3305 mV, I2 -1.6 A
Data36 == Frame(36, (0 :> 255) @@ (10 :> 40) @@ (11 :> 5) @@ (12 :> 240) @@ (13 :> 255)
                    @@ (15 :> 200) @@ (16 :> 251)
                    @@ (20 :> 228) @@ (21 :> 12) @@ (22 :> 229) @@ (23 :> 12)
                    @@ (24 :> 230) @@ (25 :> 12) @@ (26 :> 231) @@ (27 :> 12)
                    @@ (28 :> 232) @@ (29 :> 12) @@ (30 :> 233) @@ (31 :> 12)
                    @@ (34 :> 240) @@ (35 :> 255))
\* 20 bytes that do not start with FF
DataBadHeader == Frame(20, (0 :> 254) @@ (10 :> 1) @@ (12 :> 1) @@ (15 :> 1))
\* 19 bytes of a frame that stopped early
DataShort == Frame(19, (0 :> 255) @@ (10 :> 1) @@ (12 :> 1) @@ (15 :> 1))

PollChunks == {<<>>, DataShort, DataBadHeader, Data36}

Min(a, b) == IF a < b THEN a ELSE b

----------------------------------------------------------------------------
(* State                                                                   *)

VARIABLES
    batteries,             \* BatteryData batteries[MAX_BATTERIES]
    activeBatteryCount,
    protocolInitialized,
    batteryIDsAssigned,
    discoveredBatteryIDs,
    de,                    \* level of the RS485_DE pin
    rxBuf,                 \* bytes waiting in Serial2
    txLog,                 \* frames written to Serial2 in the current pass
    pc,                    \* where the sketch is
    batteryAddr,           \* initializeValenceProtocol: loop variable
    foundBatteries,        \* initializeValenceProtocol: local
    pollIndex,             \* requestBatteryData: loop variable i
    ret,                   \* result of the last requestSingleBatteryData / decode
    now,                   \* millis(), in ticks
    lastOp,                \* the entry point called last
    heardIDs,              \* identifiers heard on the bus in this discovery pass
    discoveryCompleted,    \* a discovery pass has returned
    answered,              \* polls of the current polling pass that were decoded
    timeout,               \* requestSingleBatteryData: local of the read loop
    received,              \* requestSingleBatteryData: response[0..bytesReceived-1]
    requestedAt,           \* millis() when the data request was flushed
    crc                    \* the value calculateModbusCRC returned last

vars == <<batteries, activeBatteryCount, protocolInitialized, batteryIDsAssigned,
          discoveredBatteryIDs, de, rxBuf, txLog, pc, batteryAddr, foundBatteries,
          pollIndex, ret, now, lastOp, heardIDs, discoveryCompleted, answered,
          timeout, received, requestedAt, crc>>

\* locals of the functions that are also examined on their own
locals == <<timeout, received, requestedAt, crc>>

\* the globals and pins the protocol engine owns
engine == <<batteries, activeBatteryCount, protocolInitialized, batteryIDsAssigned,
            discoveredBatteryIDs, de, rxBuf, txLog>>

\* the state setup() leaves
Init ==
    /\ batteries = [i \in Slots |-> BatteryData]
    /\ activeBatteryCount = 0
    /\ protocolInitialized = FALSE
    /\ batteryIDsAssigned = [i \in Slots |-> FALSE]
    /\ discoveredBatteryIDs = [i \in Slots |-> <<>>]
    /\ de = "LOW"
    /\ rxBuf = <<>>
    /\ txLog = <<>>
    /\ pc = "idle"
    /\ batteryAddr = 0
    /\ foundBatteries = 0
    /\ pollIndex = 0
    /\ ret = "none"
    /\ now = 0
    /\ lastOp = "none"
    /\ heardIDs = <<>>
    /\ discoveryCompleted = FALSE
    /\ answered = 0
    /\ timeout = 0
    /\ received = <<>>
    /\ requestedAt = 0
    /\ crc = 0

----------------------------------------------------------------------------
(* initializeValenceProtocol                                               *)

\* what the bus said at one address: the printable bytes of the identifier
\* span of a response that carries the FF 70 header, as a listener on the
\* wire would note it
HeardID(resp) ==
    IF Len(resp) >= ID_MIN_LENGTH /\ resp[1] = 255 /\ resp[2] = 112
    THEN SelectSeq(SubSeq(resp, 4, Len(resp) - 2), IsPrintable)
    ELSE <<>>

\* "Clear previous state": what the loop at the top of the pass does to a slot
clearSlot(b) == [b EXCEPT !.valid = FALSE]

\* DE high, wake-up sequence written, delay(100)
StartDiscovery ==
    /\ batteries' = [i \in Slots |-> clearSlot(batteries[i])]
    /\ batteryIDsAssigned' = [i \in Slots |-> FALSE]
    /\ discoveredBatteryIDs' = [i \in Slots |-> <<>>]
    /\ activeBatteryCount' = 0
    /\ de' = "HIGH"
    /\ txLog' = <<initSeq>>
    /\ \E noise \in WakeNoise : rxBuf' = rxBuf \o noise
    /\ foundBatteries' = 0
    /\ batteryAddr' = 0
    /\ pc' = "d_scan"
    /\ ret' = "none"
    /\ lastOp' = "discovery"
    /\ heardIDs' = <<>>
    /\ answered' = 0
    /\ UNCHANGED <<pollIndex, discoveryCompleted, locals>>

\* a bug: the scan does not stop when the registry is full
scanGuard_NoCap(addr, found) == addr <= 5

\* the guard of the address loop
scanGuard(addr, found) == addr <= LAST_ADDR /\ found < MAX_BATTERIES

\* one iteration, first half: build and write the poll frame, delay(200)
D_Poll ==
    /\ pc = "d_scan"
    /\ scanGuard(batteryAddr, foundBatteries)
    /\ txLog' = Append(txLog, pollMsg(batteryAddr))
    /\ \E chunk \in DiscChunks : rxBuf' = rxBuf \o chunk
    /\ pc' = "d_read"
    /\ UNCHANGED <<batteries, activeBatteryCount, protocolInitialized,
                   batteryIDsAssigned, discoveredBatteryIDs, de, batteryAddr,
                   foundBatteries, pollIndex, ret, now, lastOp, heardIDs,
                   discoveryCompleted, answered, locals>>

\* a bug: every identifier is stored in the first slot
idSlot_AlwaysFirst(found) == 0

\* the slot a newly parsed identifier is stored in
idSlot(found) == found

\* one iteration, second half: read, parse, assign, drain, delay(100)
D_Read ==
    /\ pc = "d_read"
    /\ LET available == Len(rxBuf)
           bytesRead == IF available >= DISC_MIN_AVAILABLE
                        THEN Min(available, DISC_BUF) ELSE 0
           response == SubSeq(rxBuf, 1, bytesRead)
           header == bytesRead >= 10 /\ At(response, 0) = 255 /\ At(response, 1) = 112
           batteryID == IF header THEN parseBatteryID(response, bytesRead) ELSE <<>>
           heard == HeardID(SubSeq(rxBuf, 1, Min(available, DISC_BUF)))
       IN  /\ IF Len(batteryID) > 0
              THEN /\ discoveredBatteryIDs' =
                         [discoveredBatteryIDs EXCEPT ![idSlot(foundBatteries)] = batteryID]
                   /\ batteries' =
                         [batteries EXCEPT ![idSlot(foundBatteries)].batteryID = batteryID]
                   /\ foundBatteries' = foundBatteries + 1
              ELSE UNCHANGED <<discoveredBatteryIDs, batteries, foundBatteries>>
           /\ heardIDs' = IF Len(heard) > 0 THEN Append(heardIDs, heard) ELSE heardIDs
    /\ rxBuf' = <<>>
    /\ batteryAddr' = batteryAddr + 1
    /\ pc' = "d_scan"
    /\ UNCHANGED <<activeBatteryCount, protocolInitialized, batteryIDsAssigned, de,
                   txLog, pollIndex, ret, now, lastOp, discoveryCompleted,
                   answered, locals>>

\* after the loop: assign bus IDs or fall back to test data, DE low
D_Finish ==
    /\ pc = "d_scan"
    /\ ~scanGuard(batteryAddr, foundBatteries)
    /\ IF foundBatteries > 0
       THEN /\ txLog' = Append(txLog, initSeq)
            /\ activeBatteryCount' = foundBatteries
            /\ UNCHANGED batteries
       ELSE /\ \E draw \in RandomDraws :
                  batteries' = generateTestData(batteries, now, draw)
            /\ activeBatteryCount' = TEST_BATTERIES
            /\ UNCHANGED txLog
    /\ protocolInitialized' = TRUE
    /\ de' = "LOW"
    /\ pc' = "idle"
    /\ discoveryCompleted' = TRUE
    /\ UNCHANGED <<batteryIDsAssigned, discoveredBatteryIDs, rxBuf, batteryAddr,
                   foundBatteries, pollIndex, ret, now, lastOp, heardIDs,
                   answered, locals>>

----------------------------------------------------------------------------
(* requestBatteryData and requestSingleBatteryData                         *)

\* a bug: the early return is missing
pollGate_Always(initialized) == TRUE

\* if (!protocolInitialized) return;
pollGate(initialized) == initialized

\* DE high, then the slot loop starts
StartPolling ==
    /\ de' = "HIGH"
    /\ pollIndex' = 0
    /\ txLog' = <<>>
    /\ pc' = "p_loop"
    /\ ret' = "none"
    /\ lastOp' = "poll"
    /\ answered' = 0
    /\ UNCHANGED <<batteries, activeBatteryCount, protocolInitialized,
                   batteryIDsAssigned, discoveredBatteryIDs, rxBuf, batteryAddr,
                   foundBatteries, heardIDs, discoveryCompleted, locals>>

\* the entry point: returns at once while the protocol is not initialized
requestBatteryData ==
    /\ pc = "idle"
    /\ IF pollGate(protocolInitialized)
       THEN /\ now < MaxTime
            /\ now' = now + 1
            /\ StartPolling
       ELSE /\ lastOp' = "poll_noop"
            /\ UNCHANGED <<engine, pc, batteryAddr, foundBatteries, pollIndex, ret,
                           now, heardIDs, discoveryCompleted, answered, locals>>

\* requestSingleBatteryData, up to the end of the read loop: drain, write
\* the request, collect what arrives before the deadline
P_Request ==
    /\ pc = "p_loop"
    /\ pollIndex < activeBatteryCount
    /\ IF pollIndex >= MAX_BATTERIES
       THEN /\ ret' = "fail"
            /\ pollIndex' = pollIndex + 1
            /\ UNCHANGED <<rxBuf, txLog, pc>>
       ELSE /\ txLog' = Append(txLog, dataRequest(pollIndex))
            /\ \E chunk \in PollChunks : rxBuf' = chunk
            /\ pc' = "p_read"
            /\ UNCHANGED <<ret, pollIndex>>
    /\ UNCHANGED <<batteries, activeBatteryCount, protocolInitialized,
                   batteryIDsAssigned, discoveredBatteryIDs, de, batteryAddr,
                   foundBatteries, now, lastOp, heardIDs, discoveryCompleted,
                   answered, locals>>

\* a bug: the test-data branch is taken whatever the count
noBatteries_Always(count) == TRUE

\* if (activeBatteryCount == 0), the condition of the test-data branch
noBatteries(count) == count = 0

\* requestSingleBatteryData, after the read loop, and the delay(150)
P_Read ==
    /\ pc = "p_read"
    /\ LET bytesReceived == Min(Len(rxBuf), POLL_BUF)
           response == SubSeq(rxBuf, 1, bytesReceived)
           parsed == parseValenceBatteryData(response, bytesReceived, pollIndex,
                                             batteries, now)
       IN  /\ rxBuf' = SubSeq(rxBuf, bytesReceived + 1, Len(rxBuf))
           /\ IF bytesReceived >= DATA_MIN_LENGTH
              THEN /\ batteries' = parsed.batteries
                   /\ ret' = IF parsed.ok THEN "ok" ELSE "fail"
                   /\ answered' = IF parsed.ok THEN answered + 1 ELSE answered
                   /\ UNCHANGED <<activeBatteryCount, protocolInitialized>>
              ELSE IF noBatteries(activeBatteryCount)
                   THEN /\ \E draw \in RandomDraws :
                              batteries' = generateTestData(batteries, now, draw)
                        /\ activeBatteryCount' = TEST_BATTERIES
                        /\ protocolInitialized' = TRUE
                        /\ ret' = "ok"
                        /\ UNCHANGED answered
                   ELSE /\ ret' = "fail"
                        /\ UNCHANGED <<batteries, activeBatteryCount,
                                       protocolInitialized, answered>>
    /\ pollIndex' = pollIndex + 1
    /\ pc' = "p_loop"
    /\ UNCHANGED <<batteryIDsAssigned, discoveredBatteryIDs, de, txLog, batteryAddr,
                   foundBatteries, now, lastOp, heardIDs, discoveryCompleted, locals>>

\* a bug: the pass returns without switching back to receive
P_Finish_StaysHigh ==
    /\ pc = "p_loop"
    /\ ~(pollIndex < activeBatteryCount)
    /\ pc' = "idle"
    /\ UNCHANGED <<batteries, activeBatteryCount, protocolInitialized,
                   batteryIDsAssigned, discoveredBatteryIDs, de, rxBuf, txLog,
                   batteryAddr, foundBatteries, pollIndex, ret, now, lastOp,
                   heardIDs, discoveryCompleted, answered, locals>>

\* after the slot loop: DE low
P_Finish ==
    /\ pc = "p_loop"
    /\ ~(pollIndex < activeBatteryCount)
    /\ de' = "LOW"
    /\ pc' = "idle"
    /\ UNCHANGED <<batteries, activeBatteryCount, protocolInitialized,
                   batteryIDsAssigned, discoveredBatteryIDs, rxBuf, txLog,
                   batteryAddr, foundBatteries, pollIndex, ret, now, lastOp,
                   heardIDs, discoveryCompleted, answered, locals>>

----------------------------------------------------------------------------
(* Callers                                                                 *)

\* a bug: the handler does not reset the flag
buttonFlag_Keep(initialized) == initialized

\* the flag as the button handler leaves it before it calls discovery
buttonFlag(initialized) == FALSE

\* loop(): the auto-update branch, once the poll interval has elapsed
loop ==
    /\ pc = "idle"
    /\ IF ~protocolInitialized
       THEN /\ now < MaxTime
            /\ now' = now + 1
            /\ StartDiscovery
            /\ UNCHANGED protocolInitialized
       ELSE requestBatteryData

\* handleButtons(): button 1 forces a new discovery pass
handleButtons ==
    /\ pc = "idle"
    /\ now < MaxTime
    /\ now' = now + 1
    /\ protocolInitialized' = buttonFlag(protocolInitialized)
    /\ StartDiscovery

Next ==
    \/ loop
    \/ handleButtons
    \/ requestBatteryData
    \/ D_Poll
    \/ D_Read
    \/ D_Finish
    \/ P_Request
    \/ P_Read
    \/ P_Finish

Spec == Init /\ [][Next]_vars

----------------------------------------------------------------------------
(* The frame decoder on its own: parseValenceBatteryData applied to one    *)
(* buffer and slot index, over a registry the sketch can hold              *)

\* longest buffer handed to the decoder here
MaxDecodeLen == 37

\* a len-byte buffer: header byte hdr, then bytes that vary with the offset
DecBuf(len, hdr, seed) ==
    [k \in 1..len |-> IF k = 1 THEN hdr ELSE ((k - 1) * 37 + seed * 101) % 256]

DecodeBuffers ==
    {DecBuf(len, hdr, seed) : len \in {0} \cup (18..MaxDecodeLen),
                              hdr \in {255, 254}, seed \in {0, 1}}
    \cup {Data20, Data36, DataShort, DataBadHeader}

\* registries at the time of a poll: after a discovery that found four
\* batteries, and after the synthetic fallback
FoundRegistry == [i \in Slots |-> [BatteryData EXCEPT !.batteryID = parseBatteryID(RespA, 15)]]
TestRegistry == generateTestData([i \in Slots |-> BatteryData], 0, "lo")

DecodeInit ==
    /\ batteries \in {FoundRegistry, TestRegistry}
    /\ rxBuf \in DecodeBuffers
    /\ pollIndex \in 0..(MAX_BATTERIES + 1)
    /\ activeBatteryCount = MAX_BATTERIES
    /\ protocolInitialized = TRUE
    /\ batteryIDsAssigned = [i \in Slots |-> FALSE]
    /\ discoveredBatteryIDs = [i \in Slots |-> <<>>]
    /\ de = "HIGH"
    /\ txLog = <<>>
    /\ pc = "dec_call"
    /\ batteryAddr = 0
    /\ foundBatteries = 0
    /\ ret = "none"
    /\ now = 1
    /\ lastOp = "decode"
    /\ heardIDs = <<>>
    /\ discoveryCompleted = TRUE
    /\ answered = 0
    /\ timeout = 0
    /\ received = <<>>
    /\ requestedAt = 0
    /\ crc = 0

\* what the part of response[128] that was never written may hold
StackFill == {0, 170}

\* byte response[128] with the received bytes in front
responseArray(bytes, fill) ==
    [k \in 1..POLL_BUF |-> IF k <= Len(bytes) THEN bytes[k] ELSE fill]

\* parseValenceBatteryData(response, bytesReceived, pollIndex), the received
\* bytes being rxBuf
DecodeCall ==
    /\ pc = "dec_call"
    /\ \E fill \in StackFill :
          LET parsed == parseValenceBatteryData(responseArray(rxBuf, fill), Len(rxBuf),
                                                pollIndex, batteries, now)
          IN  /\ batteries' = parsed.batteries
              /\ ret' = IF parsed.ok THEN "ok" ELSE "fail"
    /\ pc' = "dec_ret"
    /\ UNCHANGED <<activeBatteryCount, protocolInitialized, batteryIDsAssigned,
                   discoveredBatteryIDs, de, rxBuf, txLog, batteryAddr,
                   foundBatteries, pollIndex, now, lastOp, heardIDs,
                   discoveryCompleted, answered, locals>>

DecodeNext == DecodeCall

SpecDecode == DecodeInit /\ [][DecodeNext]_vars

----------------------------------------------------------------------------
(* Properties: the decoder (checked under SpecDecode)                      *)

\* the field table, read off the buffer: little-endian 16-bit values
U16LE(buf, off) == buf[off + 1] + 256 * buf[off + 2]
S16LE(buf, off) == IF buf[off + 2] >= 128 THEN U16LE(buf, off) - 65536
                                           ELSE U16LE(buf, off)
S8(buf, off) == IF buf[off + 1] >= 128 THEN buf[off + 1] - 256 ELSE buf[off + 1]

DecodeStep == pc = "dec_call" /\ pc' = "dec_ret"

Decodable == Len(rxBuf) >= 20 /\ rxBuf[1] = 255 /\ pollIndex \in Slots

\* C4: Decoder bounds. A decode of a buffer shorter than 20 bytes, or for a
\* slot index >= 4, or of a buffer whose first byte is not 0xFF, returns
\* failure and leaves every registry slot as it was.
C4_DecoderBounds ==
    [][(DecodeStep /\ (Len(rxBuf) < 20 \/ pollIndex >= 4 \/ rxBuf[1] # 255))
         => (ret' = "fail" /\ batteries' = batteries)]_vars

\* a 20-byte-or-longer FF buffer was refused because the slot is out of range
C4_Witness ==
    /\ pc = "dec_ret"
    /\ ret = "fail"
    /\ Len(rxBuf) >= 20
    /\ rxBuf[1] = 255
    /\ pollIndex >= MAX_BATTERIES

\* C9: Decoder field table. For every buffer of at least 20 bytes that
\* starts with 0xFF and every slot 0..3 the decode succeeds and the slot
\* holds voltage = u16le[10..11], current = s16le[12..13], soc = byte 15,
\* temperature = s8 byte 16 and power = voltage * |current|; the scenario
\* frame gives 50.00 V, 8.0 A, SOC 100, 23 C.
C9_FieldTable ==
    (pc = "dec_ret" /\ Decodable) =>
        LET b == batteries[pollIndex]
        IN  /\ ret = "ok"
            /\ b.voltage = U16LE(rxBuf, 10)
            /\ b.current = S16LE(rxBuf, 12)
            /\ b.soc = rxBuf[16]
            /\ b.temperature = S8(rxBuf, 16)
            /\ b.power = U16LE(rxBuf, 10) * Abs(S16LE(rxBuf, 12))
            /\ (rxBuf = Data20 =>
                  /\ b.voltage = 5000
                  /\ b.current = 80
                  /\ b.soc = 100
                  /\ b.temperature = 23)

\* a frame with a negative current and a negative temperature was decoded
C9_Witness ==
    /\ pc = "dec_ret"
    /\ ret = "ok"
    /\ batteries[pollIndex].current < 0
    /\ batteries[pollIndex].temperature < 0
    /\ batteries[pollIndex].voltage > 0

\* cell i as the table gives it (unit 0.0005 V)
CellAt(buf, i) == 2 * U16LE(buf, 20 + 2 * i)

\* the values cell i can take when it is written from offsets 20+2i, 21+2i
\* of a buffer: the high byte is any byte when it lies past the received data
CellWritten(buf, i) ==
    IF 21 + 2 * i < Len(buf) THEN {CellAt(buf, i)}
    ELSE {2 * (buf[20 + 2 * i + 1] + 256 * h) : h \in 0..255}

SecondaryOK ==
    batteries'[pollIndex].current2 =
        IF Len(rxBuf) > 35 THEN 10 * S16LE(rxBuf, 34)
                           ELSE batteries[pollIndex].current2

\* C10 as stated: a successful decode writes all six cell voltages exactly
\* when the length is above 30, and the secondary current exactly when the
\* length is above 35.
C10_Original ==
    [][(DecodeStep /\ Decodable) =>
         /\ \A i \in 0..5 :
              IF Len(rxBuf) > 30
              THEN batteries'[pollIndex].cellVoltages[i] \in CellWritten(rxBuf, i)
              ELSE batteries'[pollIndex].cellVoltages[i]
                     = batteries[pollIndex].cellVoltages[i]
         /\ SecondaryOK]_vars

\* C10 amended: a successful decode writes cell i exactly when the length is
\* above 30 and offset 21+2i lies inside the buffer (cells 0..4 at length
\* 31, all six from length 32 on) and leaves the other cells unchanged; it
\* writes the secondary current exactly when the length is above 35.
C10_LengthGuards ==
    [][(DecodeStep /\ Decodable) =>
         /\ \A i \in 0..5 :
              IF Len(rxBuf) > 30 /\ 21 + 2 * i < Len(rxBuf)
              THEN batteries'[pollIndex].cellVoltages[i] = CellAt(rxBuf, i)
              ELSE batteries'[pollIndex].cellVoltages[i]
                     = batteries[pollIndex].cellVoltages[i]
         /\ SecondaryOK]_vars

\* a 31-byte frame was decoded
C10_Witness ==
    /\ pc = "dec_ret"
    /\ ret = "ok"
    /\ Len(rxBuf) = 31
    /\ batteries[pollIndex].cellVoltages[4] = CellAt(rxBuf, 4)

----------------------------------------------------------------------------
(* Properties: discovery, polling and the registry (checked under Spec)    *)

\* a discovery pass has just returned
AfterDiscovery == pc = "idle" /\ lastOp = "discovery"

\* slots 0..n-1 hold the identifiers heard, in the order they were heard
AssignedInOrder(n) ==
    /\ activeBatteryCount = n
    /\ \A k \in 0..(n - 1) :
         /\ batteries[k].batteryID = heardIDs[k + 1]
         /\ discoveredBatteryIDs[k] = heardIDs[k + 1]

\* C1 as stated: for every N <= 4, a discovery pass that hears N valid
\* responses ends with their identifiers in slots 0..N-1 in the order
\* heard and with activeBatteryCount = N.
C1_Original ==
    (AfterDiscovery /\ Len(heardIDs) <= MAX_BATTERIES)
        => AssignedInOrder(Len(heardIDs))

\* C1 amended: the same for every N with 1 <= N <= 4 (with N = 0 the pass
\* ends with the four synthetic slots instead).
C1_DiscoveryOrder ==
    (AfterDiscovery /\ Len(heardIDs) >= 1 /\ Len(heardIDs) <= MAX_BATTERIES)
        => AssignedInOrder(Len(heardIDs))

\* four batteries answered, the first two with different identifiers
C1_Witness ==
    /\ AfterDiscovery
    /\ Len(heardIDs) = 4
    /\ heardIDs[1] # heardIDs[2]
    /\ batteries[1].batteryID = heardIDs[2]

\* C2: Synthetic fallback completeness. After a discovery pass in which no
\* address yielded an identifier, protocolInitialized is true,
\* activeBatteryCount is 4 and all four slots are valid, whatever the
\* registry held before.
C2_SyntheticFallback ==
    (AfterDiscovery /\ heardIDs = <<>>) =>
        /\ protocolInitialized
        /\ activeBatteryCount = 4
        /\ \A i \in Slots : batteries[i].valid

\* a second discovery pass heard nothing and has returned
C2_Witness ==
    /\ AfterDiscovery
    /\ heardIDs = <<>>
    /\ now >= 2
    /\ activeBatteryCount = 4

\* the poll being read has failed: fewer than 20 bytes, or no FF in front
PollFails == Len(rxBuf) < 20 \/ rxBuf[1] # 255

\* C3: Stale-on-failure. A failed poll of a valid slot (fewer than 20
\* bytes, or first byte not 0xFF) returns failure and leaves the slot valid
\* with every field, lastUpdate included, as it was; a valid flag goes from
\* true to false only at the start of a discovery pass.
C3_StaleOnFailure ==
    [][/\ (pc = "p_read" /\ pc' = "p_loop" /\ PollFails /\ batteries[pollIndex].valid)
          => (ret' = "fail" /\ batteries'[pollIndex] = batteries[pollIndex])
       /\ \A i \in Slots :
            (batteries[i].valid /\ ~batteries'[i].valid)
               => (pc = "idle" /\ pc' = "d_scan")]_vars

\* a poll of a slot holding an older valid reading has just failed
C3_Witness ==
    /\ pc = "p_loop"
    /\ ret = "fail"
    /\ pollIndex >= 1
    /\ batteries[pollIndex - 1].valid
    /\ batteries[pollIndex - 1].lastUpdate < now

\* the step writes a data request frame
SendsDataRequest ==
    /\ txLog' # txLog
    /\ txLog' # <<>>
    /\ txLog'[Len(txLog')][2] = 97

\* the step is a call of requestBatteryData
PollCalled == pc = "idle" /\ lastOp' \in {"poll", "poll_noop"}

\* C5: Discovery precedes polling. No data request frame is sent and no
\* registry field is changed by a polling pass unless a discovery pass has
\* completed; while protocolInitialized is false a call of
\* requestBatteryData changes nothing.
C5_DiscoveryPrecedesPolling ==
    [][/\ SendsDataRequest => discoveryCompleted
       /\ (pc \in {"p_loop", "p_read"} /\ batteries' # batteries) => discoveryCompleted
       /\ (PollCalled /\ ~protocolInitialized)
            => (pc' = "idle" /\ UNCHANGED engine)]_vars

\* requestBatteryData was called before any discovery pass
C5_Witness ==
    /\ lastOp = "poll_noop"
    /\ ~protocolInitialized
    /\ ~discoveryCompleted

\* C6: Registry size. activeBatteryCount never exceeds 4, and it is at
\* least 1 after every completed discovery pass and whenever
\* protocolInitialized is true.
C6_RegistrySize ==
    /\ activeBatteryCount <= 4
    /\ protocolInitialized => activeBatteryCount >= 1
    /\ AfterDiscovery => activeBatteryCount >= 1

\* a re-discovery has returned with exactly one battery found
C6_Witness ==
    /\ AfterDiscovery
    /\ now >= 2
    /\ protocolInitialized
    /\ activeBatteryCount = 1

\* C7: Slot reset on re-discovery. After a pass that found N >= 1 real
\* batteries every slot with index >= N has an empty identifier and is not
\* valid, whatever earlier passes left in the registry.
C7_SlotReset ==
    (AfterDiscovery /\ foundBatteries >= 1) =>
        \A i \in Slots :
            i >= foundBatteries =>
                (batteries[i].batteryID = <<>> /\ ~batteries[i].valid)

\* C8: Idle bus is in receive mode. Whenever no pass is executing, the
\* direction-control line is low.
C8_IdleReceive == pc = "idle" => de = "LOW"

\* a polling pass whose last poll failed has returned
C8_Witness ==
    /\ pc = "idle"
    /\ lastOp = "poll"
    /\ ret = "fail"
    /\ de = "LOW"

----------------------------------------------------------------------------
(* calculateModbusCRC on its own: the CRC of a buffer is computed and      *)
(* stored behind it as the senders do, then computed again over the        *)
(* extended buffer with the two check bytes left out                       *)

\* longest buffer built from CrcBytes
MaxCrcLen == 3

CrcBytes == {0, 1, 97, 128, 255}

\* "123456789"
CheckString == <<49, 50, 51, 52, 53, 54, 55, 56, 57>>

CrcInputs ==
    UNION {[1..n -> CrcBytes] : n \in 0..MaxCrcLen}
    \cup {CheckString}
    \cup {<<255, 80, 6, 0, a>> : a \in 0..LAST_ADDR}
    \cup {<<255, 97, 6, i, 0>> : i \in Slots}

CrcInit ==
    /\ rxBuf \in CrcInputs
    /\ crc \in {0, 43981}
    /\ pc = "crc_call"
    /\ txLog = <<>>
    /\ batteries = [i \in Slots |-> BatteryData]
    /\ activeBatteryCount = 0
    /\ protocolInitialized = FALSE
    /\ batteryIDsAssigned = [i \in Slots |-> FALSE]
    /\ discoveredBatteryIDs = [i \in Slots |-> <<>>]
    /\ de = "HIGH"
    /\ batteryAddr = 0
    /\ foundBatteries = 0
    /\ pollIndex = 0
    /\ ret = "none"
    /\ now = 0
    /\ lastOp = "crc"
    /\ heardIDs = <<>>
    /\ discoveryCompleted = FALSE
    /\ answered = 0
    /\ timeout = 0
    /\ received = <<>>
    /\ requestedAt = 0

\* crc = calculateModbusCRC(msg, n); msg[n] = crc & 0xFF; msg[n+1] = (crc >> 8) & 0xFF;
CrcAppend ==
    /\ pc = "crc_call"
    /\ crc' = calculateModbusCRC(rxBuf, Len(rxBuf))
    /\ txLog' = <<rxBuf \o <<crc' % 256, (crc' \div 256) % 256>>>>
    /\ pc' = "crc_sent"
    /\ UNCHANGED <<batteries, activeBatteryCount, protocolInitialized,
                   batteryIDsAssigned, discoveredBatteryIDs, de, rxBuf, batteryAddr,
                   foundBatteries, pollIndex, ret, now, lastOp, heardIDs,
                   discoveryCompleted, answered, timeout, received, requestedAt>>

\* calculateModbusCRC(frame, length - 2) over the frame that was sent
CrcRecheck ==
    /\ pc = "crc_sent"
    /\ crc' = calculateModbusCRC(txLog[1], Len(txLog[1]) - 2)
    /\ pc' = "crc_checked"
    /\ UNCHANGED <<batteries, activeBatteryCount, protocolInitialized,
                   batteryIDsAssigned, discoveredBatteryIDs, de, rxBuf, txLog,
                   batteryAddr, foundBatteries, pollIndex, ret, now, lastOp,
                   heardIDs, discoveryCompleted, answered, timeout, received,
                   requestedAt>>

CrcNext ==
    \/ CrcAppend
    \/ CrcRecheck

SpecCRC == CrcInit /\ [][CrcNext]_vars

----------------------------------------------------------------------------
(* Properties: frames and their CRC                                        *)

\* a ^ b, bit by bit from the low end
RECURSIVE BitXor(_, _)
BitXor(a, b) ==
    IF a = 0 THEN b
    ELSE IF b = 0 THEN a
    ELSE ((a + b) % 2) + 2 * BitXor(a \div 2, b \div 2)

\* the MODBUS CRC-16 by half-bytes: the remainders of 0..15 under the
\* reflected polynomial 0xA001
NibbleTable ==
    <<0, 52225, 55297, 5120, 61441, 15360, 10240, 58369,
      40961, 27648, 30720, 46081, 20480, 39937, 34817, 17408>>

RefNibble(c) == BitXor(NibbleTable[(c % 16) + 1], c \div 16)

RefByte(c, b) ==
    CHOOSE r \in {RefNibble(y) : y \in {RefNibble(x) : x \in {BitXor(c, b)}}} : TRUE

\* the reference CRC of the first n bytes of data, seed 0xFFFF
RECURSIVE RefFold(_, _)
RefFold(data, n) ==
    IF n = 0 THEN 65535
    ELSE CHOOSE r \in {RefByte(c, data[n]) : c \in {RefFold(data, n - 1)}} : TRUE

RefCRC(data) == RefFold(data, Len(data))

\* data followed by its reference CRC, low byte first
Checked(data) == data \o <<RefCRC(data) % 256, RefCRC(data) \div 256>>

\* the step writes one more frame, with the opcode op
Writes(op) ==
    /\ Len(txLog') = Len(txLog) + 1
    /\ txLog'[Len(txLog')][2] = op

\* C11: Outgoing frame format. Every discovery poll frame is the 7 bytes
\* FF 50 06 00 a crcLo crcHi for the address a being scanned and every data
\* request frame is the 7 bytes FF 61 06 slot 00 crcLo crcHi for the slot
\* being polled, the check bytes being the MODBUS CRC-16 of the first five
\* bytes, low byte first.
C11_FrameFormat ==
    [][/\ Writes(80) =>
            /\ pc = "d_scan"
            /\ txLog'[Len(txLog')] = Checked(<<255, 80, 6, 0, batteryAddr>>)
            /\ Len(txLog'[Len(txLog')]) = 7
       /\ Writes(97) =>
            /\ pc = "p_loop"
            /\ txLog'[Len(txLog')] = Checked(<<255, 97, 6, pollIndex, 0>>)
            /\ Len(txLog'[Len(txLog')]) = 7]_vars

\* the data request for slot 1 is on the wire: FF 61 06 01 00 CE 79
C11_Witness ==
    /\ pc = "p_read"
    /\ pollIndex = 1
    /\ txLog[Len(txLog)] = <<255, 97, 6, 1, 0, 206, 121>>

\* C12: CRC engine. For every buffer calculateModbusCRC returns the MODBUS
\* CRC-16 of its bytes (seed 0xFFFF, polynomial 0xA001 reflected), a 16-bit
\* value that does not depend on what was computed before; computed again
\* over the buffer with the CRC stored behind it, low byte first, the two
\* check bytes left out, it returns the same value.  The CRC of "123456789"
\* is 0x4B37.
C12_CrcEngine ==
    /\ pc \in {"crc_sent", "crc_checked"} =>
          /\ crc = RefCRC(rxBuf)
          /\ crc \in 0..65535
          /\ txLog[1] = Checked(rxBuf)
          /\ (rxBuf = CheckString => crc = 19255)
          /\ (rxBuf = <<>> => crc = 65535)

\* the CRC of "123456789" was computed a second time, over the sent frame
C12_Witness ==
    /\ pc = "crc_checked"
    /\ rxBuf = CheckString
    /\ txLog[1] = CheckString \o <<55, 75>>
    /\ crc = 19255

----------------------------------------------------------------------------
(* Properties: the direction-control line and the receive buffer            *)

\* the sketch is about to read what a battery answered
Listening == pc \in {"d_read", "p_read"}

\* C13: Receive mode while listening. Whenever the engine waits for or
\* reads response bytes (after a discovery poll, in the read loop of a data
\* request) the direction-control line is low; it is high only between the
\* write of a frame and the end of its flush.
C13_ReceiveWhileListening == Listening => de = "LOW"

----------------------------------------------------------------------------
(* Properties: what a polling pass does to the registry                    *)

\* the step belongs to a polling pass: its call, a request, a read, its return
PollingStep == pc \in {"p_loop", "p_read"} \/ (pc = "idle" /\ pc' = "p_loop")

\* C14: Polling does not change protocol state. A polling pass leaves
\* protocolInitialized, activeBatteryCount and the identifier of every slot
\* as they were and changes no field of a slot with index >= activeBatteryCount.
C14_PollingKeepsProtocolState ==
    [][PollingStep =>
         /\ protocolInitialized' = protocolInitialized
         /\ activeBatteryCount' = activeBatteryCount
         /\ discoveredBatteryIDs' = discoveredBatteryIDs
         /\ \A i \in Slots :
              /\ batteries'[i].batteryID = batteries[i].batteryID
              /\ i >= activeBatteryCount => batteries'[i] = batteries[i]]_vars

\* a pass over a registry of one battery has returned; the battery answered
C14_Witness ==
    /\ pc = "idle"
    /\ lastOp = "poll"
    /\ activeBatteryCount = 1
    /\ answered = 1
    /\ batteries[0].valid
    /\ ~batteries[1].valid

\* C15: Synthetic data on silent polling. After a polling pass in which no
\* slot gave a response that could be decoded, all four slots are valid and
\* carry readings generated in this pass, stamped with the current time.
C15_SyntheticOnSilentPolling ==
    (pc = "idle" /\ lastOp = "poll" /\ answered = 0) =>
        \A i \in Slots : batteries[i].valid /\ batteries[i].lastUpdate = now

----------------------------------------------------------------------------
(* The read half of one discovery iteration on its own: the response at   *)
(* address 0 is read, checked, handed to parseBatteryID and stored         *)

\* longest response built here
MaxIdLen == 17

\* bytes on and next to the edges of the printable range
IdBytes == <<65, 0, 126, 127, 32, 31, 66>>

\* a len-byte response FF 70 len followed by bytes that vary with the offset
IdBuf(len, seed) ==
    [k \in 1..len |->
        IF k = 1 THEN 255
        ELSE IF k = 2 THEN 112
        ELSE IF k = 3 THEN len
        ELSE IdBytes[(((k - 1) * (seed + 1) + (seed \div 3)) % 7) + 1]]

IdBuffers ==
    {IdBuf(len, seed) : len \in DISC_MIN_AVAILABLE..MaxIdLen, seed \in 0..11}
    \cup {RespA, RespB, RespShort, RespNoID}

IdInit ==
    /\ rxBuf \in IdBuffers
    /\ pc = "d_read"
    /\ batteries = [i \in Slots |-> BatteryData]
    /\ activeBatteryCount = 0
    /\ protocolInitialized = FALSE
    /\ batteryIDsAssigned = [i \in Slots |-> FALSE]
    /\ discoveredBatteryIDs = [i \in Slots |-> <<>>]
    /\ de = "HIGH"
    /\ txLog = <<initSeq, pollMsg(0)>>
    /\ batteryAddr = 0
    /\ foundBatteries = 0
    /\ pollIndex = 0
    /\ ret = "none"
    /\ now = 1
    /\ lastOp = "discovery"
    /\ heardIDs = <<>>
    /\ discoveryCompleted = FALSE
    /\ answered = 0
    /\ timeout = 0
    /\ received = <<>>
    /\ requestedAt = 0
    /\ crc = 0

IdNext == D_Read

SpecID == IdInit /\ [][IdNext]_vars

----------------------------------------------------------------------------
(* Properties: discovery responses and identifiers                         *)

Printable == 32..126

\* the identifier span of a response: offsets 3 .. len-3
Span(resp) == SubSeq(resp, 4, Len(resp) - 2)

\* the response at the current address is read; it has the FF 70 header
ReadsResponse ==
    /\ pc = "d_read"
    /\ pc' = "d_scan"
    /\ Len(rxBuf) >= 10
    /\ Len(rxBuf) <= 64
    /\ rxBuf[1] = 255
    /\ rxBuf[2] = 112

\* the response was given the next free slot, with a non-empty identifier
Assigned ==
    /\ foundBatteries' = foundBatteries + 1
    /\ batteries'[foundBatteries].batteryID # <<>>
    /\ discoveredBatteryIDs'[foundBatteries] = batteries'[foundBatteries].batteryID

HasPrintable(resp) == \E k \in 1..Len(Span(resp)) : Span(resp)[k] \in Printable

\* C16 as stated: a discovery response of at least 10 bytes with the FF 70
\* header and a printable byte at offsets 3..len-3 yields a non-empty
\* identifier and is assigned the next free slot.
C16_Original ==
    [][(ReadsResponse /\ HasPrintable(rxBuf)) => Assigned]_vars

\* C16 amended: the same for a response of at least 15 bytes; a response of
\* 10 to 14 bytes yields no identifier and is assigned no slot.
C16_AcceptedFromFifteen ==
    [][ReadsResponse =>
         IF Len(rxBuf) >= 15
         THEN HasPrintable(rxBuf) => Assigned
         ELSE UNCHANGED <<foundBatteries, batteries, discoveredBatteryIDs>>]_vars

\* a 15-byte response at address 1 was given slot 0
C16_Witness ==
    /\ pc = "d_scan"
    /\ batteryAddr = 2
    /\ foundBatteries = 1
    /\ heardIDs # <<>>
    /\ batteries[0].batteryID = heardIDs[1]

\* what the read step extracted from the response
Extracted ==
    IF foundBatteries' > foundBatteries THEN batteries'[foundBatteries].batteryID
                                        ELSE <<>>

\* the longest run of printable bytes at the front of s
RECURSIVE PrintableRun(_)
PrintableRun(s) ==
    IF s = <<>> \/ Head(s) \notin Printable THEN <<>>
    ELSE <<Head(s)>> \o PrintableRun(Tail(s))

\* C17 as stated: the identifier is the maximal contiguous run of printable
\* bytes that starts at offset 3 and ends no later than offset len-3.
C17_Original ==
    [][ReadsResponse => Extracted = PrintableRun(Span(rxBuf))]_vars

\* C17 amended: for a response of at least 15 bytes the identifier is made
\* of all printable bytes at offsets 3..len-3, in order; a non-printable
\* byte is left out and the bytes after it still contribute.  A shorter
\* response gives no identifier.
C17_AllPrintableBytes ==
    [][ReadsResponse =>
         Extracted = IF Len(rxBuf) >= 15
                     THEN SelectSeq(Span(rxBuf), LAMBDA b : b \in Printable)
                     ELSE <<>>]_vars

\* "BATA1" was extracted from FF 70 0F "BATA" 01 "1" ...: the byte behind the
\* non-printable 01 was taken
C17_Witness ==
    /\ pc = "d_scan"
    /\ batteryAddr = 1
    /\ foundBatteries = 1
    /\ batteries[0].batteryID = <<66, 65, 84, 65, 49>>

\* C18: Stale bytes are discarded before every request. When a discovery
\* poll frame is written the receive buffer is empty, and what the read
\* after a data request finds is only what arrived after the request.
C18_NoStaleBytes ==
    [][/\ Writes(80) => rxBuf = <<>>
       /\ Writes(97) => rxBuf' \in PollChunks]_vars

----------------------------------------------------------------------------
(* Properties: the order of the requests of a pass                         *)

\* byte pos of the frames with opcode op written in this pass, in order
Sent(op, pos) ==
    LET fr == SelectSeq(txLog, LAMBDA f : f[2] = op)
    IN  [k \in 1..Len(fr) |-> fr[k][pos]]

\* seq is 0, 1, 2, ...
CountsUp(seq) == \A k \in 1..Len(seq) : seq[k] = k - 1

VisitOrder ==
    /\ CountsUp(Sent(80, 5))
    /\ Len(Sent(80, 5)) <= 6
    /\ CountsUp(Sent(97, 4))
    /\ Len(Sent(97, 4)) <= activeBatteryCount
    /\ AfterDiscovery => (Len(Sent(80, 5)) = 6 \/ foundBatteries = 4)
    /\ (pc = "idle" /\ lastOp = "poll") => Len(Sent(97, 4)) = activeBatteryCount

----------------------------------------------------------------------------
(* The two read loops on their own, with bytes arriving in Serial2 while   *)
(* they run: the loop of requestSingleBatteryData, one millisecond per     *)
(* iteration, and the loop of initializeValenceProtocol                    *)

RESPONSE_TIMEOUT == 1000
BYTE_EXTENSION == 100

\* single bytes the bus delivers during one read
MaxRxBytes == 2

\* runs of iterations that find Serial2 empty, in iterations of delay(1)
IdleRuns == {50, 450}

\* most bytes waiting in Serial2 when the discovery read starts
MaxDiscLen == 66

\* n bytes of an answer FF 70 'A' 'A' ...
DiscAnswer(n) == [k \in 1..n |-> IF k = 1 THEN 255 ELSE IF k = 2 THEN 112 ELSE 65]

\* a bug: the loop does not stop at the end of the array
readGuard_NoCap == now < timeout

\* millis() < timeout && bytesReceived < 128
readGuard == now < timeout /\ Len(received) < POLL_BUF

\* the polling read at its start: timeout = millis() + RESPONSE_TIMEOUT,
\* bytesReceived = 0; or the discovery read before its test of available()
ReadInit ==
    /\ \/ /\ pc = "r_loop"
          /\ now \in {0, 7}
          /\ timeout = now + RESPONSE_TIMEOUT
          /\ rxBuf = <<>>
       \/ /\ pc = "dr_check"
          /\ now = 0
          /\ timeout = 0
          /\ rxBuf \in {DiscAnswer(n) : n \in 0..MaxDiscLen}
    /\ requestedAt = now
    /\ received = <<>>
    /\ batteries = FoundRegistry
    /\ activeBatteryCount = 1
    /\ protocolInitialized = TRUE
    /\ batteryIDsAssigned = [i \in Slots |-> FALSE]
    /\ discoveredBatteryIDs = [i \in Slots |-> <<>>]
    /\ de = "HIGH"
    /\ txLog = <<dataRequest(0)>>
    /\ batteryAddr = 0
    /\ foundBatteries = 0
    /\ pollIndex = 0
    /\ ret = "none"
    /\ lastOp = "poll"
    /\ heardIDs = <<>>
    /\ discoveryCompleted = TRUE
    /\ answered = 0
    /\ crc = 0

\* what the read loop leaves alone
readRest == <<batteries, activeBatteryCount, protocolInitialized, batteryIDsAssigned,
              discoveredBatteryIDs, de, txLog, batteryAddr, foundBatteries,
              pollIndex, ret, lastOp, heardIDs, discoveryCompleted, answered,
              requestedAt, crc>>

\* the bus: one byte arrives
R_Arrive ==
    /\ pc = "r_loop"
    /\ Len(received) + Len(rxBuf) < MaxRxBytes
    /\ rxBuf' = Append(rxBuf, 255)
    /\ UNCHANGED <<readRest, pc, now, timeout, received>>

\* the bus: a frame longer than the response array arrives in one piece
R_Burst ==
    /\ pc = "r_loop"
    /\ received = <<>>
    /\ rxBuf = <<>>
    /\ rxBuf' = Frame(POLL_BUF + 2, (0 :> 255))
    /\ UNCHANGED <<readRest, pc, now, timeout, received>>

\* an iteration that finds a byte: store it, timeout = millis() + 100, delay(1)
R_Byte ==
    /\ pc = "r_loop"
    /\ readGuard
    /\ rxBuf # <<>>
    /\ received' = Append(received, Head(rxBuf))
    /\ rxBuf' = Tail(rxBuf)
    /\ timeout' = now + BYTE_EXTENSION
    /\ now' = now + 1
    /\ UNCHANGED <<readRest, pc>>

\* k iterations that find nothing, each a delay(1); the loop is left at the
\* deadline if it comes first
R_Idle ==
    /\ pc = "r_loop"
    /\ readGuard
    /\ rxBuf = <<>>
    /\ \E k \in IdleRuns : now' = Min(now + k, timeout)
    /\ UNCHANGED <<readRest, pc, rxBuf, timeout, received>>

\* the loop condition is false
R_Exit ==
    /\ pc = "r_loop"
    /\ ~readGuard
    /\ pc' = "r_done"
    /\ UNCHANGED <<readRest, rxBuf, now, timeout, received>>

\* if (Serial2.available() >= 10): the read is entered or skipped
DR_Check ==
    /\ pc = "dr_check"
    /\ pc' = IF Len(rxBuf) >= DISC_MIN_AVAILABLE THEN "dr_loop" ELSE "dr_done"
    /\ UNCHANGED <<readRest, rxBuf, now, timeout, received>>

\* Serial2.available() && bytesRead < 64
discReadGuard == rxBuf # <<>> /\ Len(received) < DISC_BUF

\* the bus: one more byte of the answer arrives during the read
DR_Arrive ==
    /\ pc = "dr_loop"
    /\ Len(received) + Len(rxBuf) < MaxDiscLen
    /\ rxBuf' = Append(rxBuf, 65)
    /\ UNCHANGED <<readRest, pc, now, timeout, received>>

\* response[bytesRead++] = Serial2.read();
DR_Byte ==
    /\ pc = "dr_loop"
    /\ discReadGuard
    /\ received' = Append(received, Head(rxBuf))
    /\ rxBuf' = Tail(rxBuf)
    /\ UNCHANGED <<readRest, pc, now, timeout>>

\* the loop condition is false; the header test and parseBatteryID follow
DR_Exit ==
    /\ pc = "dr_loop"
    /\ ~discReadGuard
    /\ pc' = "dr_done"
    /\ UNCHANGED <<readRest, rxBuf, now, timeout, received>>

ReadNext ==
    \/ R_Arrive
    \/ R_Burst
    \/ R_Byte
    \/ R_Idle
    \/ R_Exit
    \/ DR_Check
    \/ DR_Arrive
    \/ DR_Byte
    \/ DR_Exit

SpecRead == ReadInit /\ [][ReadNext]_vars

----------------------------------------------------------------------------
(* Properties: the deadline of the read loop                               *)

\* C19: Deadline only extends. In the read loop of a data request the
\* deadline starts at request time + 1000 ms; storing a byte never moves it
\* to an earlier time, and the loop is not left before request time +
\* 1000 ms unless 128 bytes have been stored.
C19_DeadlineOnlyExtends ==
    [][pc = "r_loop" =>
         /\ Len(received) = 0 => timeout = requestedAt + 1000
         /\ Len(received') > Len(received) => timeout' >= timeout
         /\ pc' = "r_done" =>
               (now >= requestedAt + 1000 \/ Len(received) = 128)]_vars

----------------------------------------------------------------------------
(* Properties: the readings a valid slot holds                             *)

\* C21: State of charge range. Whatever discovery and polling passes have
\* run, every valid slot has its state of charge within 0..100.
C21_SocRange ==
    \A i \in Slots : batteries[i].valid => batteries[i].soc \in 0..100

----------------------------------------------------------------------------
(* Properties: the frames of a discovery pass                              *)

\* FF 43 06 06 42 46 FF 43 06 06 42 46
WakeUp == <<255, 67, 6, 6, 66, 70, 255, 67, 6, 6, 66, 70>>

\* the places in the log of this pass where the wake-up sequence stands
WakeUpsSent == {k \in 1..Len(txLog) : txLog[k] = WakeUp}

\* the wake-up sequence is the first frame of a discovery pass
WakeUpFirst ==
    lastOp = "discovery" =>
        /\ txLog # <<>>
        /\ txLog[1] = WakeUp
        /\ \A k \in 1..Len(txLog) : txLog[k][2] = 80 => k > 1

\* C22 as stated: every discovery pass sends the wake-up sequence before
\* its first poll frame and sends it again after the address scan, before
\* it sets protocolInitialized, whether or not a battery was found.
C22_Original ==
    /\ WakeUpFirst
    /\ AfterDiscovery =>
          /\ protocolInitialized
          /\ WakeUpsSent = {1, Len(txLog)}
          /\ Len(txLog) > 1

\* C22 amended: every discovery pass sends the wake-up sequence before its
\* first poll frame; after the address scan it sends it again, as the last
\* frame of the pass, exactly when at least one battery was found; a pass
\* that found none sends it once only.  Either way the pass ends with
\* protocolInitialized set.
C22_WakeUpResentWhenFound ==
    /\ WakeUpFirst
    /\ AfterDiscovery =>
          /\ protocolInitialized
          /\ IF foundBatteries > 0
             THEN WakeUpsSent = {1, Len(txLog)} /\ Len(txLog) > 1
             ELSE WakeUpsSent = {1}

\* a pass that found nothing has returned: wake-up, six polls, nothing else
C22_Witness ==
    /\ AfterDiscovery
    /\ foundBatteries = 0
    /\ protocolInitialized
    /\ Len(txLog) = 7
    /\ txLog[7][2] = 80

----------------------------------------------------------------------------
(* Properties: a poll that succeeds                                        *)

\* the read of the poll of slot pollIndex ends with 20 bytes or more, FF first
PollDecodes ==
    /\ pc = "p_read"
    /\ pc' = "p_loop"
    /\ Len(rxBuf) >= 20
    /\ rxBuf[1] = 255

\* C24: Successful poll marks the slot valid. When the poll of slot i
\* receives at least 20 bytes whose first byte is 0xFF the poll succeeds,
\* slot i is valid with lastUpdate at the current time, and no other slot
\* is changed.
C24_SuccessfulPoll ==
    [][PollDecodes =>
         /\ ret' = "ok"
         /\ batteries'[pollIndex].valid
         /\ batteries'[pollIndex].lastUpdate = now
         /\ \A j \in Slots \ {pollIndex} : batteries'[j] = batteries[j]]_vars

\* the poll of slot 1 has succeeded after the poll of slot 0 had failed
C24_Witness ==
    /\ pc = "p_loop"
    /\ pollIndex = 2
    /\ ret = "ok"
    /\ batteries[1].valid
    /\ batteries[1].lastUpdate = now
    /\ ~batteries[0].valid

----------------------------------------------------------------------------
(* Properties: what the decoder reads (checked under SpecDecode)           *)

\* the slot as the received bytes alone determine it: each field from its
\* offsets when they all lie below the length, the old value otherwise
FromReceived(old, buf, t) ==
    [old EXCEPT
       !.voltage = U16LE(buf, 10),
       !.current = S16LE(buf, 12),
       !.power = U16LE(buf, 10) * Abs(S16LE(buf, 12)),
       !.soc = buf[16],
       !.temperature = S8(buf, 16),
       !.cellVoltages = [i \in 0..5 |->
                            IF Len(buf) > 30 /\ 21 + 2 * i < Len(buf)
                            THEN CellAt(buf, i) ELSE old.cellVoltages[i]],
       !.current2 = IF Len(buf) > 35 THEN 10 * S16LE(buf, 34) ELSE old.current2,
       !.valid = TRUE,
       !.lastUpdate = t]

\* C25: No out-of-bounds decode reads. For every buffer of 20 bytes or more
\* the decoded slot is determined by the bytes below the buffer length
\* alone, whatever the array holds behind them; a cell voltage or secondary
\* current whose offsets reach the length or lie beyond it keeps its value.
C25_ReadsBelowLength ==
    [][(DecodeStep /\ Decodable) =>
         batteries'[pollIndex] = FromReceived(batteries[pollIndex], rxBuf, now)]_vars

\* a 35-byte frame was decoded over a synthetic slot: six cells written,
\* the secondary current as the generator had left it
C25_Witness ==
    /\ pc = "dec_ret"
    /\ ret = "ok"
    /\ Len(rxBuf) = 35
    /\ pollIndex = 2
    /\ batteries[2].cellVoltages[5] = CellAt(rxBuf, 5)
    /\ batteries[2].current2 = TestRegistry[2].current2
    /\ batteries[3] = TestRegistry[3]

----------------------------------------------------------------------------
(* Properties: the response arrays (checked under SpecRead)                *)

\* C26: Receive buffers never overflow. The discovery read stores at most
\* 64 bytes in response[64] and the polling read at most 128 bytes in
\* response[128], whatever the bus delivers; the length handed on to
\* parseBatteryID or parseValenceBatteryData is the number of bytes stored.
C26_BuffersNeverOverflow ==
    /\ pc \in {"dr_check", "dr_loop", "dr_done"} => Len(received) <= 64
    /\ pc \in {"r_loop", "r_done"} => Len(received) <= 128

\* the discovery read has stopped at 64 bytes with more bytes waiting
C26_Witness ==
    /\ pc = "dr_done"
    /\ Len(received) = 64
    /\ rxBuf # <<>>

----------------------------------------------------------------------------
(* The passes loop by loop: every read loop and every drain loop takes one *)
(* step per iteration, and the bus may deliver a byte between any two      *)
(* steps of a pass.  The passes are those loop() starts after power-up;    *)
(* the clock counts from the last data request.                            *)

\* bytes the bus may push into Serial2 ahead of the sketch reading them
LiveRxCap == 1

\* what a battery may answer to a discovery poll here
LiveAnswers == {<<>>, RespA}

\* the bus: a stray byte arrives during a pass
L_Arrive ==
    /\ pc # "idle"
    /\ Len(rxBuf) < LiveRxCap
    /\ rxBuf' = Append(rxBuf, 0)
    /\ UNCHANGED <<readRest, pc, now, timeout, received>>

\* loop() while the protocol is not initialized
L_Discover ==
    /\ pc = "idle"
    /\ ~protocolInitialized
    /\ StartDiscovery
    /\ UNCHANGED <<protocolInitialized, now>>

\* loop() once the protocol is initialized
L_PollPass ==
    /\ pc = "idle"
    /\ pollGate(protocolInitialized)
    /\ StartPolling
    /\ UNCHANGED now

\* the poll frame is written; delay(200), during which an answer may arrive
L_Poll ==
    /\ pc = "d_scan"
    /\ scanGuard(batteryAddr, foundBatteries)
    /\ txLog' = Append(txLog, pollMsg(batteryAddr))
    /\ \E chunk \in LiveAnswers : rxBuf' = rxBuf \o chunk
    /\ pc' = "dr_check"
    /\ UNCHANGED <<batteries, activeBatteryCount, protocolInitialized,
                   batteryIDsAssigned, discoveredBatteryIDs, de, batteryAddr,
                   foundBatteries, pollIndex, ret, now, lastOp, heardIDs,
                   discoveryCompleted, answered, locals>>

\* after the read: the header test, parseBatteryID and the assignment
L_Parse ==
    /\ pc = "dr_done"
    /\ LET bytesRead == Len(received)
           header == bytesRead >= 10 /\ At(received, 0) = 255 /\ At(received, 1) = 112
           batteryID == IF header THEN parseBatteryID(received, bytesRead) ELSE <<>>
       IN  IF Len(batteryID) > 0
           THEN /\ discoveredBatteryIDs' =
                      [discoveredBatteryIDs EXCEPT ![idSlot(foundBatteries)] = batteryID]
                /\ batteries' =
                      [batteries EXCEPT ![idSlot(foundBatteries)].batteryID = batteryID]
                /\ foundBatteries' = foundBatteries + 1
           ELSE UNCHANGED <<discoveredBatteryIDs, batteries, foundBatteries>>
    /\ received' = <<>>
    /\ pc' = "d_drain"
    /\ UNCHANGED <<activeBatteryCount, protocolInitialized, batteryIDsAssigned, de,
                   rxBuf, txLog, batteryAddr, pollIndex, ret, now, lastOp, heardIDs,
                   discoveryCompleted, answered, timeout, requestedAt, crc>>

\* while (Serial2.available()) Serial2.read();  one iteration
L_DrainByte ==
    /\ pc \in {"d_drain", "p_drain"}
    /\ rxBuf # <<>>
    /\ rxBuf' = Tail(rxBuf)
    /\ UNCHANGED <<readRest, pc, now, timeout, received>>

\* batteryAddr++
nextAddr(addr) == addr + 1

\* the discovery drain finds Serial2 empty: delay(100), next address
L_Drained ==
    /\ pc = "d_drain"
    /\ rxBuf = <<>>
    /\ batteryAddr' = nextAddr(batteryAddr)
    /\ pc' = "d_scan"
    /\ UNCHANGED <<batteries, activeBatteryCount, protocolInitialized,
                   batteryIDsAssigned, discoveredBatteryIDs, de, rxBuf, txLog,
                   foundBatteries, pollIndex, ret, now, lastOp, heardIDs,
                   discoveryCompleted, answered, locals>>

\* the slot loop calls requestSingleBatteryData(pollIndex)
L_Slot ==
    /\ pc = "p_loop"
    /\ pollIndex < activeBatteryCount
    /\ IF pollIndex >= MAX_BATTERIES
       THEN /\ ret' = "fail"
            /\ pollIndex' = pollIndex + 1
            /\ UNCHANGED pc
       ELSE /\ pc' = "p_drain"
            /\ UNCHANGED <<ret, pollIndex>>
    /\ UNCHANGED <<batteries, activeBatteryCount, protocolInitialized,
                   batteryIDsAssigned, discoveredBatteryIDs, de, rxBuf, txLog,
                   batteryAddr, foundBatteries, now, lastOp, heardIDs,
                   discoveryCompleted, answered, locals>>

\* the polling drain finds Serial2 empty: the request is written and the
\* read loop starts
L_Request ==
    /\ pc = "p_drain"
    /\ rxBuf = <<>>
    /\ txLog' = Append(txLog, dataRequest(pollIndex))
    /\ now' = 0
    /\ requestedAt' = 0
    /\ timeout' = RESPONSE_TIMEOUT
    /\ received' = <<>>
    /\ pc' = "r_loop"
    /\ UNCHANGED <<batteries, activeBatteryCount, protocolInitialized,
                   batteryIDsAssigned, discoveredBatteryIDs, de, rxBuf, batteryAddr,
                   foundBatteries, pollIndex, ret, lastOp, heardIDs,
                   discoveryCompleted, answered, crc>>

\* a bug: the clock stands still
silenceUntil_ClockStopped(t, deadline) == t

\* millis() after the iterations that find nothing up to the deadline
silenceUntil(t, deadline) == deadline

\* the bus stays silent: the read loop runs on to its deadline
L_Silence ==
    /\ pc = "r_loop"
    /\ readGuard
    /\ rxBuf = <<>>
    /\ now' = silenceUntil(now, timeout)
    /\ UNCHANGED <<readRest, pc, rxBuf, timeout, received>>

\* requestSingleBatteryData after its read loop, and the delay(150)
L_AfterRead ==
    /\ pc = "r_done"
    /\ LET bytesReceived == Len(received)
           parsed == parseValenceBatteryData(received, bytesReceived, pollIndex,
                                             batteries, now)
       IN  IF bytesReceived >= DATA_MIN_LENGTH
           THEN /\ batteries' = parsed.batteries
                /\ ret' = IF parsed.ok THEN "ok" ELSE "fail"
                /\ answered' = IF parsed.ok THEN answered + 1 ELSE answered
                /\ UNCHANGED <<activeBatteryCount, protocolInitialized>>
           ELSE IF noBatteries(activeBatteryCount)
                THEN /\ \E draw \in RandomDraws :
                           batteries' = generateTestData(batteries, now, draw)
                     /\ activeBatteryCount' = TEST_BATTERIES
                     /\ protocolInitialized' = TRUE
                     /\ ret' = "ok"
                     /\ UNCHANGED answered
                ELSE /\ ret' = "fail"
                     /\ UNCHANGED <<batteries, activeBatteryCount,
                                    protocolInitialized, answered>>
    /\ pollIndex' = pollIndex + 1
    /\ received' = <<>>
    /\ timeout' = 0
    /\ now' = 0
    /\ pc' = "p_loop"
    /\ UNCHANGED <<batteryIDsAssigned, discoveredBatteryIDs, de, rxBuf, txLog,
                   batteryAddr, foundBatteries, lastOp, heardIDs,
                   discoveryCompleted, requestedAt, crc>>

\* the steps of the sketch
Program ==
    \/ L_Poll
    \/ DR_Check
    \/ DR_Byte
    \/ DR_Exit
    \/ L_Parse
    \/ L_DrainByte
    \/ L_Drained
    \/ D_Finish
    \/ L_Slot
    \/ L_Request
    \/ R_Byte
    \/ L_Silence
    \/ R_Exit
    \/ L_AfterRead
    \/ P_Finish

PassNext ==
    \/ L_Discover
    \/ L_PollPass
    \/ L_Arrive
    \/ Program

\* the sketch keeps running: a step it can take is taken
SpecPass == Init /\ [][PassNext]_vars /\ WF_vars(Program)

----------------------------------------------------------------------------
(* Properties: the passes return (checked under SpecPass)                  *)

\* the sketch is in one of its two drain loops
Draining == pc \in {"d_drain", "p_drain"}

\* the pass has returned, a discovery pass with the protocol initialized
Returned == pc = "idle" /\ (lastOp = "discovery" => protocolInitialized)

====
